---- MODULE Spec2Model ----
(***************************************************************************)
(* State-machine model of the EPA download toolkit (package epa):          *)
(*   - the AirNow flow: AirNowDownloader (airnow_downloader.py) driven by  *)
(*     AirNow.download (airnow.py);                                        *)
(*   - the AQS flow: download_data (aqs_tools.py) driven by AQS.download   *)
(*     (aqs.py).                                                           *)
(* Files are sequences of lines.  A day is a positive integer, a site is a *)
(* positive integer, a remote payload is the sequence of the sites of its  *)
(* hourly readings.                                                        *)
(***************************************************************************)
EXTENDS Integers, Sequences, FiniteSets, TLC

(* ------------------------------ bounds -------------------------------- *)
\* calendar days are 1..MaxDay
MaxDay == 2
\* monitoring sites are 1..MaxSite
MaxSite == 2
\* download / download_range calls made in one behaviour of the AirNow flow
MaxOps == 2
\* API calls made in one behaviour of the AQS flow
MaxAqsOps == 2
\* number of URLs of the AQS download task
MaxUrls == 2
\* source rows in one AQS archive
MaxSrcRows == 2
\* parameter codes of AQS source rows are 1..MaxParam
MaxParam == 2
\* year of day 1
BaseYear == 2019
\* days per modelled calendar year
YearLen == 1
\* the first year a task plan may be requested for
PlanFirstYear == 1998
\* requested years are PlanFirstYear .. PlanFirstYear + MaxPlanSpan - 1
MaxPlanSpan == 4
\* length of the requested list of years
MaxYearList == 3
\* length of the requested list of parameters
MaxParamList == 2
\* points handed to the annotator are 1..MaxPoint
MaxPoint == 3
\* rows of a batch handed to GISAnnotator.join
MaxBatch == 2
\* length of the list of shape files of an annotator
MaxShapeFiles == 2
\* join calls made on one annotator
MaxJoins == 2
\* the time one day's download may take besides its retry sleeps is
\* 0, 1, 2 or 3 times LatencyStep tenths of a second
LatencyStep == 36

(* ------------------------- program constants -------------------------- *)
max_attempts == 5
time_to_sleep_between_attempts == 10
\* download_data gives up when attempt > 3
aqs_attempt_limit == 3
\* width of the sequence number in RECORD_NUM_FORMAT = "{:d}-{:010d}"
record_num_width == 10
\* download_range, line 366: 7.2 seconds, in tenths of a second
pacing_budget == 72

Days == 1..MaxDay
Sites == 1..MaxSite
Params == 1..MaxParam

(* ------------------------------ helpers ------------------------------- *)
RECURSIVE SortedSeq(_)
\* the ascending sequence of the elements of a finite set of integers
SortedSeq(S) ==
    IF S = {} THEN <<>>
    ELSE LET m == CHOOSE x \in S : \A y \in S : x <= y
         IN <<m>> \o SortedSeq(S \ {m})

Range(s) == {s[i] : i \in DOMAIN s}

IsPrefix(s, t) == Len(s) <= Len(t) /\ SubSeq(t, 1, Len(s)) = s

\* the character of a decimal digit
DigitChar(d) == <<"0", "1", "2", "3", "4", "5", "6", "7", "8", "9">>[d + 1]

\* the rank of a character in string comparison ('-' sorts before the digits)
CharOrd(c) ==
    IF c = "-" THEN 0
    ELSE 1 + CHOOSE d \in 0..9 : DigitChar(d) = c

RECURSIVE Digits(_)
\* str(n) of "{:d}" for n >= 0, as a sequence of characters
Digits(n) ==
    IF n < 10 THEN <<DigitChar(n)>>
    ELSE Digits(n \div 10) \o <<DigitChar(n % 10)>>

RECURSIVE ZeroPad(_, _)
\* "{:0wd}": pads on the left up to width w, never truncates
ZeroPad(d, w) == IF Len(d) >= w THEN d ELSE ZeroPad(<<"0">> \o d, w)

RECURSIVE StrLess(_, _)
\* a < b for two strings (Python's lexicographic comparison)
StrLess(a, b) ==
    IF b = <<>> THEN FALSE
    ELSE IF a = <<>> THEN TRUE
    ELSE IF Head(a) = Head(b) THEN StrLess(Tail(a), Tail(b))
    ELSE CharOrd(Head(a)) < CharOrd(Head(b))

\* RECORD_NUM_FORMAT.format(year, record_index)
RECORD_NUM_FORMAT(year, index) ==
    Digits(year) \o <<"-">> \o ZeroPad(Digits(index), record_num_width)

\* the year read from the row's "UTC" / "Date Local" / "Year" column
YearOf(day) == BaseYear + ((day - 1) \div YearLen)

\* add_record_num: the Record column of a row
add_record_num(year, index) == RECORD_NUM_FORMAT(year, index)


(* ============================ state ==================================== *)
VARIABLES
    \* --- AirNow: the destination file of the downloader
    target,          \* its lines, in write order
    target_exists,   \* os.path.exists(self.target)
    is_json,         \* ".json" in self.target
    has_target,      \* self.target is not None
    \* --- AirNow: fields of the AirNowDownloader instance
    record_index,    \* self.record_index
    header_written,  \* self.header_written
    sites,           \* self.sites: the cache entries, one per cached site
    t_int,           \* self.t_int: the sub-windows of a day
    \* --- AirNow: position of the running call
    pc,              \* "idle" | "loop" | "request" | "process" | "done" | "failed"
    mode,            \* "single" (download) | "range" (download_range)
    start_date,      \* argument of download_range
    end_date,        \* argument of download_range
    dt,              \* the day being downloaded
    interval,        \* index in t_int of the sub-window being requested
    contents,        \* download's list of payloads received so far
    attempts,        \* get_content's local counter of failed attempts
    exc,             \* the exception the last call raised: its kind and, for a
                     \* fetch error, the as_content call that raised it
    \* --- AirNow: history of the running call
    ops,             \* download / download_range calls made so far
    day_calls,       \* days download was called with by the running download_range
    req_days,        \* days of the requests issued by the running call
    file_before,     \* the file when download(dt) was entered
    empty_day,       \* the day whose aggregated result was empty, 0 if none
    range_rows,      \* rows written by the running call, in write order
    tries,           \* as_content calls of the current / last get_content
    naps,            \* sleeps of the current / last get_content
    gc_state,        \* "none" | "running" | "returned" | "raised"
    last_error,      \* the as_content call that raised last, 0 if none
    run_rows,        \* rows given a Record key by this instance, in order
    \* --- AirNow: time, in tenths of a second
    since_t,         \* datetime.now() - t: the time since the running
                     \* iteration of download_range began, sleeps included;
                     \* 0 when no iteration is running
    elapsed,         \* download_range's local elapsed, 0 before line 365
    slept,           \* the time the iteration slept at line 367, 0 if none
    \* --- AirNow: more history of the running call
    returned,        \* what the last download returned: "none" | "rows" | "target"
    requests,        \* startdate and enddate of the requests of the last download
    handed,          \* per site, how often this instance passed it to
                     \* annotator.join
    \* --- the program that runs
    flow             \* "airnow" (airnow.py) | "aqs" (aqs.py)

airnow_vars ==
    <<target, target_exists, is_json, record_index, header_written, sites,
      t_int, pc, mode, start_date, end_date, dt, interval, contents, attempts,
      exc, ops, day_calls, req_days, file_before, empty_day, range_rows,
      tries, naps, gc_state, last_error, run_rows, since_t, elapsed, slept,
      has_target, returned, requests, handed>>

VARIABLES
    \* --- the destination file of the download task
    dest,            \* its lines, in write order
    dest_exists,     \* os.path.isfile(task.destination)
    \* --- the task and the library
    parameters,      \* task.metadata: the parameter filter, {} for none
    transform_first, \* write_csv applies the transformer before the filter
    \* --- the process
    aqs_record_index,\* the module global record_index of aqs_tools
    \* --- position of the running download_data
    apc,             \* "idle" | "open" | "fetch" | "done" | "failed"
    url,             \* index in task.urls of the URL being downloaded
    write_header,    \* the local write_header
    attempt,         \* the local attempt
    aqs_exc,         \* the exception the last call raised
    \* --- history of the running call
    aqs_ops,         \* AQS.download / download_data calls made so far
    up_to_date,      \* task.is_up_to_date() as the last AQS.download saw it
    fetched,         \* URLs as_csv_reader was called for by the running call
    dest_before,     \* the file when the running call was entered
    written,         \* lines the running call wrote, in write order
    exhausted_url,   \* the URL whose attempts were exhausted, 0 if none
    proc_rows        \* lines this process wrote, in write order

aqs_vars ==
    <<dest, dest_exists, parameters, transform_first, aqs_record_index, apc, url,
      write_header, attempt, aqs_exc, aqs_ops, up_to_date, fetched, dest_before,
      written, exhausted_url, proc_rows>>

VARIABLES
    \* --- the AQSContext handed to collect_aqs_download_tasks
    ctx_years,       \* context.years
    ctx_parameters,  \* context.parameters
    ctx_aggregation, \* context.aggregation: "annual" | "daily"
    ctx_merge_years, \* context.merge_years
    \* --- the call
    plan_pc,         \* "idle" | "returned" | "failed"
    contiguous_years,\* the local contiguous_years: the segments
    downloads,       \* the list of tasks the call returned
    plan_exc         \* the exception the call raised

planner_vars ==
    <<ctx_years, ctx_parameters, ctx_aggregation, ctx_merge_years, plan_pc,
      contiguous_years, downloads, plan_exc>>

VARIABLES
    \* --- fields of the GISAnnotator instance
    shape_files,     \* self.shape_files: the schema of each configured file
    columns,         \* self.columns: the requested columns
    zip_shapes,      \* self.zip_shapes: the loaded zip layer, NoLayer for None
    county_shapes,   \* self.county_shapes: the loaded county layer
    \* --- the last call
    gis_pc,          \* "none" | "rejected" | "constructed" | "returned" | "raised"
    df,              \* the batch the last join was called with
    joined,          \* the frame the last join returned
    gis_exc,         \* the exception the last call raised
    \* --- history
    join_calls,      \* join calls made on the annotator
    file_loads,      \* GeoDataFrame.from_file calls of the last join
    column_checks,   \* _check_columns calls of the last join
    sjoin_calls      \* geopandas.sjoin calls of the last join

gis_vars ==
    <<shape_files, columns, zip_shapes, county_shapes, gis_pc, df, joined,
      gis_exc, join_calls, file_loads, column_checks, sjoin_calls>>

\* what the AirNow flow leaves alone
outside_airnow == <<flow, aqs_vars, planner_vars, gis_vars>>

\* what the AQS flow leaves alone
outside_aqs == <<flow, airnow_vars, planner_vars, gis_vars>>

\* what the task planner leaves alone
outside_planner == <<flow, airnow_vars, aqs_vars, gis_vars>>

\* what the annotator leaves alone
outside_gis == <<flow, airnow_vars, aqs_vars, planner_vars>>

(* ============================ AirNow flow ============================== *)
\* the header line of a CSV file
HeaderLine ==
    [kind |-> "header", site |-> 0, day |-> 0, Record |-> <<>>, Monitor |-> <<>>]

\* mutation of T_INT: both sub-windows of a split day are the whole day
T_INT_whole_day(parameter_is_pm25) ==
    IF parameter_is_pm25
    THEN << <<"00", "23:59">> >>
    ELSE << <<"00", "23:59">>, <<"00", "23:59">> >>

\* self.t_int as set by the constructor
T_INT(parameter_is_pm25) ==
    IF parameter_is_pm25
    THEN << <<"00", "23:59">> >>
    ELSE << <<"00", "11:59">>, <<"12:00", "23:59">> >>

\* payloads the remote API may return for one sub-window
Payloads == {SortedSeq(S) : S \in SUBSET Sites}

RECURSIVE merge(_)
\* AirNowDownloader.merge: the concatenation of the JSON arrays
merge(cs) == IF cs = <<>> THEN <<>> ELSE Head(cs) \o merge(Tail(cs))

\* the content download hands to process
Content(cs) == IF Len(cs) > 1 THEN merge(cs) ELSE cs[1]

\* df.groupby(SITE).agg(...).reset_index(): one row per site, ascending
Aggregated(content) == SortedSeq(Range(content))

InCache(cache, m) == \E e \in cache : e.site = m

CacheEntry(cache, m) == CHOOSE e \in cache : e.site = m

\* whether the point of site m lies in a polygon of the county layer
Located(m) == m % 2 = 1

\* annotator.join on the new sites: a left join, one row per input row
Annotated(new_monitors) ==
    {[site  |-> m,
      State |-> IF Located(m) THEN "ST" ELSE "None",
      FIPS5 |-> IF Located(m) THEN m ELSE 0] : m \in new_monitors}

\* mutation of NewMonitors: every site of the day is looked up again
NewMonitorsAll(agg, cache) == Range(agg)

\* check_sites, line 320: the sites of the day that are not in the cache
NewMonitors(agg, cache) == {m \in Range(agg) : ~InCache(cache, m)}

\* check_sites: the cache after it
check_sites(agg, cache) ==
    LET new_monitors == NewMonitors(agg, cache)
    IN  IF new_monitors = {} THEN cache
        ELSE {e \in cache : e.site \notin new_monitors}
                 \cup Annotated(new_monitors)

\* add_monitor_key: MONITOR_FORMAT.format(state, fips, site)
add_monitor_key(entry) ==
    <<IF entry.State = "None" THEN "__" ELSE entry.State, entry.FIPS5, entry.site>>

RECURSIVE ProcessRows(_, _, _, _)
\* the loop of process over the aggregated rows, from record_index = index
ProcessRows(agg, cache, index, day) ==
    IF agg = <<>> THEN <<>>
    ELSE IF ~InCache(cache, Head(agg))
         THEN ProcessRows(Tail(agg), cache, index, day)
         ELSE << [kind    |-> "row",
                  site    |-> Head(agg),
                  day     |-> day,
                  Record  |-> add_record_num(YearOf(day), index + 1),
                  Monitor |-> add_monitor_key(CacheEntry(cache, Head(agg)))] >>
              \o ProcessRows(Tail(agg), cache, index + 1, day)

\* mutation of EmptyIsFatal: the emptiness check is dropped
EmptyIsIgnored(rows) == FALSE

\* download, line 218: an empty result is fatal
EmptyIsFatal(rows) == rows = <<>>

\* mutation of RetryAfterFailure: the comparison is off by one
RetryAfterFailureOffByOne(failed) == failed <= max_attempts

\* get_content, line 180: sleep and retry after this failure
RetryAfterFailure(failed) == failed < max_attempts

\* write_csv_header: fopen(target, "wt") and the header
write_csv_header(file) == <<HeaderLine>>

\* the file after download's write of a non-empty list of rows
WriteRows(file, rows, json, hdr_written) ==
    IF json THEN file \o rows
    ELSE (IF ~hdr_written THEN write_csv_header(file) ELSE file) \o rows

\* reset: the file is removed
ResetFile(file) == <<>>

NoError == [kind |-> "none", call |-> 0]

Error(kind) == [kind |-> kind, call |-> 0]

\* the exception raised by the n-th as_content call of a get_content
FetchError(n) == [kind |-> "fetch", call |-> n]

Ready == pc \in {"idle", "done", "failed"}

ClearHistory ==
    /\ day_calls' = <<>>
    /\ req_days' = <<>>
    /\ empty_day' = 0
    /\ range_rows' = <<>>
    /\ tries' = 0
    /\ naps' = <<>>
    /\ gc_state' = "none"
    /\ last_error' = 0
    /\ contents' = <<>>
    /\ attempts' = 0
    /\ interval' = 1
    /\ since_t' = 0
    /\ elapsed' = 0
    /\ slept' = 0
    /\ returned' = "none"
    /\ requests' = <<>>

ClearCall ==
    /\ exc' = NoError
    /\ ClearHistory

\* AirNowDownloader.__init__: a new instance (a new run) on the same target
NewDownloader ==
    /\ flow = "airnow"
    /\ Ready
    /\ ops' = ops
    /\ record_index' = 0
    /\ header_written' = FALSE
    /\ sites' = {}
    /\ \E pm25 \in BOOLEAN : t_int' = T_INT(pm25)
    /\ pc' = "idle"
    /\ mode' = "single"
    /\ start_date' = 1 /\ end_date' = 1 /\ dt' = 1
    /\ file_before' = target
    /\ run_rows' = <<>>
    /\ handed' = [m \in Sites |-> 0]
    /\ ClearCall
    /\ UNCHANGED <<target, target_exists, is_json, has_target>>
    /\ UNCHANGED outside_airnow

\* AirNowDownloader.reset
Reset ==
    /\ flow = "airnow"
    /\ Ready
    /\ ops' = ops
    /\ IF has_target
       THEN /\ target' = IF target_exists THEN ResetFile(target) ELSE target
            /\ target_exists' = FALSE
            /\ pc' = "idle"
            /\ exc' = NoError
       ELSE \* os.path.exists(None)
            /\ pc' = "failed"
            /\ exc' = Error("TypeError")
            /\ UNCHANGED <<target, target_exists>>
    /\ file_before' = target'
    /\ ClearHistory
    /\ UNCHANGED <<is_json, has_target, handed, record_index, header_written, sites,
                   t_int, mode, start_date, end_date, dt, run_rows>>
    /\ UNCHANGED outside_airnow

\* download, line 205: ".json" in self.target raises for a target of None
TargetIsSearchable(given) == given

\* entry of download(requested_date), lines 205-207
EnterDownload(d) ==
    /\ dt' = d
    /\ pc' = IF TargetIsSearchable(has_target) THEN "request" ELSE "failed"
    /\ interval' = 1
    /\ contents' = <<>>
    /\ attempts' = 0
    /\ file_before' = target
    /\ returned' = "none"
    /\ requests' = <<>>

\* a direct call of download(requested_date)
CallDownload ==
    /\ flow = "airnow"
    /\ Ready /\ ops < MaxOps
    /\ ops' = ops + 1
    /\ \E d \in Days :
         /\ EnterDownload(d)
         /\ start_date' = d /\ end_date' = d
    /\ mode' = "single"
    /\ exc' = IF TargetIsSearchable(has_target) THEN NoError ELSE Error("TypeError")
    /\ day_calls' = <<>> /\ req_days' = <<>> /\ empty_day' = 0
    /\ range_rows' = <<>> /\ tries' = 0 /\ naps' = <<>> /\ gc_state' = "none"
    /\ last_error' = 0
    /\ since_t' = 0 /\ elapsed' = 0 /\ slept' = 0
    /\ UNCHANGED <<target, target_exists, is_json, has_target, handed, record_index,
                   header_written, sites, t_int, run_rows>>
    /\ UNCHANGED outside_airnow

\* download_range(start_date, end_date), up to the head of its loop
CallDownloadRange ==
    /\ flow = "airnow"
    /\ Ready /\ ops < MaxOps
    /\ ops' = ops + 1
    /\ \E s \in Days, e \in Days :
         /\ start_date' = s /\ end_date' = e /\ dt' = s
    /\ mode' = "range"
    /\ IF has_target
       THEN pc' = "loop" /\ exc' = NoError
       ELSE \* line 349: assert self.target
            pc' = "failed" /\ exc' = Error("AssertionError")
    /\ file_before' = target
    /\ ClearHistory
    /\ UNCHANGED <<target, target_exists, is_json, has_target, handed, record_index,
                   header_written, sites, t_int, run_rows>>
    /\ UNCHANGED outside_airnow

\* download_range, lines 356-357: one iteration calls download(dt)
RangeIterate ==
    /\ flow = "airnow"
    /\ pc = "loop"
    /\ since_t' = 0 /\ elapsed' = 0 /\ slept' = 0
    /\ EnterDownload(dt)
    /\ day_calls' = Append(day_calls, dt)
    /\ UNCHANGED <<target, target_exists, is_json, record_index, header_written,
                   sites, t_int, mode, start_date, end_date, exc, ops, req_days,
                   empty_day, range_rows, tries, naps, gc_state, last_error,
                   run_rows, has_target, handed>>
    /\ UNCHANGED outside_airnow

\* seconds in tenths of a second
Ticks(sec) == 10 * sec

\* the time a day's download may have taken besides its retry sleeps
Latencies == {0, LatencyStep, 2 * LatencyStep, 3 * LatencyStep}

\* mutation of PacingSleep: the loop always sleeps the whole budget
PacingSleepWholeBudget(seconds) == pacing_budget

\* download_range, lines 366-367: the time the loop sleeps, 0 for no sleep
PacingSleep(seconds) ==
    IF seconds < pacing_budget THEN pacing_budget - seconds ELSE 0

\* download, lines 209-210: options["startdate"] and options["enddate"] of
\* the request for a sub-window of the day
Request(day, window) ==
    [startdate |-> <<day, window[1]>>, enddate |-> <<day, window[2]>>]

\* get_content: one attempt (one as_content call) for sub-window `interval`
GetContentAttempt ==
    /\ flow = "airnow"
    /\ pc = "request"
    /\ LET fresh == attempts = 0
           tries0 == IF fresh THEN 0 ELSE tries
           naps0 == IF fresh THEN <<>> ELSE naps
       IN
       /\ tries' = tries0 + 1
       /\ req_days' = IF fresh THEN Append(req_days, dt) ELSE req_days
       /\ requests' = IF fresh
                      THEN Append(requests, Request(dt, t_int[interval]))
                      ELSE requests
       /\ \/ \* as_content returns
             \E p \in Payloads :
               /\ contents' = Append(contents, p)
               /\ gc_state' = "returned"
               /\ naps' = naps0
               /\ attempts' = 0
               /\ IF interval < Len(t_int)
                  THEN interval' = interval + 1 /\ pc' = "request"
                  ELSE interval' = interval /\ pc' = "process"
               /\ last_error' = IF fresh THEN 0 ELSE last_error
               /\ exc' = exc
               /\ since_t' = since_t
          \/ \* as_content raises
               /\ last_error' = tries0 + 1
               /\ IF RetryAfterFailure(attempts + 1)
                  THEN /\ attempts' = attempts + 1
                       /\ naps' = Append(naps0, time_to_sleep_between_attempts)
                       /\ since_t' =
                              IF mode = "range"
                              THEN since_t + Ticks(time_to_sleep_between_attempts)
                              ELSE since_t
                       /\ gc_state' = "running"
                       /\ pc' = "request"
                       /\ exc' = exc
                  ELSE /\ attempts' = attempts + 1
                       /\ naps' = naps0
                       /\ since_t' = 0
                       /\ gc_state' = "raised"
                       /\ pc' = "failed"
                       /\ exc' = FetchError(tries0 + 1)
               /\ UNCHANGED <<contents, interval>>
    /\ UNCHANGED <<target, target_exists, is_json, record_index, header_written,
                   sites, t_int, mode, start_date, end_date, dt, ops, day_calls,
                   file_before, empty_day, range_rows, run_rows, elapsed, slept,
                   has_target, returned, handed>>
    /\ UNCHANGED outside_airnow

\* download_range, lines 358-367: after download(dt) returned
AfterDownload ==
    IF mode = "range" /\ ~(dt >= end_date)
    THEN /\ dt' = dt + 1 /\ pc' = "loop"
         /\ \E latency \in Latencies :
               /\ elapsed' = since_t + latency
               /\ slept' = PacingSleep(elapsed')
               /\ since_t' = elapsed' + slept'
    ELSE /\ dt' = dt /\ pc' = "done"
         /\ since_t' = 0
         /\ UNCHANGED <<elapsed, slept>>

\* download, lines 213-232 (process, the emptiness check, the write), and the
\* caller's step after it returns
ProcessAndWrite ==
    /\ flow = "airnow"
    /\ pc = "process"
    /\ LET content == Content(contents)
           agg == Aggregated(content)
           cache == check_sites(agg, sites)
           rows == ProcessRows(agg, cache, record_index, dt)
       IN
       /\ empty_day' = IF rows = <<>> THEN dt ELSE empty_day
       /\ \/ \* an empty frame has no SITE column: groupby raises
             /\ content = <<>>
             /\ pc' = "failed" /\ exc' = Error("KeyError")
             /\ UNCHANGED <<target, target_exists, record_index, header_written,
                            sites, dt, range_rows, run_rows, elapsed,
                            slept, returned, handed>>
             /\ since_t' = 0
          \/ \* process returns
             /\ sites' = cache
             /\ handed' = [m \in Sites |->
                              IF m \in NewMonitors(agg, sites)
                              THEN handed[m] + 1 ELSE handed[m]]
             /\ record_index' = record_index + Len(rows)
             /\ run_rows' = run_rows \o rows
             /\ IF EmptyIsFatal(rows)
                THEN /\ pc' = "failed" /\ exc' = Error("Empty response")
                     /\ UNCHANGED <<target, target_exists, header_written, dt,
                                    range_rows, elapsed, slept, returned>>
                     /\ since_t' = 0
                ELSE IF ~has_target
                THEN \* lines 220-221: the rows are returned, nothing is written
                     /\ pc' = "done" /\ exc' = exc
                     /\ returned' = "rows"
                     /\ UNCHANGED <<target, target_exists, header_written, dt,
                                    range_rows, elapsed, slept>>
                     /\ since_t' = 0
                ELSE IF rows = <<>> /\ ~is_json
                THEN \* rows[0] of an empty list
                     /\ pc' = "failed" /\ exc' = Error("IndexError")
                     /\ target_exists' = TRUE
                     /\ UNCHANGED <<target, header_written, dt, range_rows,
                                    elapsed, slept, returned>>
                     /\ since_t' = 0
                ELSE /\ target' = WriteRows(target, rows, is_json, header_written)
                     /\ target_exists' = TRUE
                     /\ header_written' = (header_written \/ ~is_json)
                     /\ range_rows' = range_rows \o rows
                     /\ exc' = exc
                     /\ returned' = "target"
                     /\ AfterDownload
    /\ contents' = <<>>
    /\ tries' = 0 /\ naps' = <<>> /\ gc_state' = "none" /\ last_error' = 0
    /\ UNCHANGED <<is_json, t_int, mode, start_date, end_date, interval, attempts,
                   ops, day_calls, req_days, file_before, has_target, requests>>
    /\ UNCHANGED outside_airnow

AirNowInit ==
    /\ target = <<>>
    /\ target_exists = FALSE
    /\ is_json \in BOOLEAN
    /\ record_index = 0
    /\ header_written = FALSE
    /\ sites = {}
    /\ t_int \in {T_INT(TRUE), T_INT(FALSE)}
    /\ pc = "idle"
    /\ mode = "single"
    /\ start_date = 1 /\ end_date = 1 /\ dt = 1
    /\ interval = 1
    /\ contents = <<>>
    /\ attempts = 0
    /\ exc = NoError
    /\ ops = 0
    /\ day_calls = <<>>
    /\ req_days = <<>>
    /\ file_before = <<>>
    /\ empty_day = 0
    /\ range_rows = <<>>
    /\ tries = 0
    /\ naps = <<>>
    /\ gc_state = "none"
    /\ last_error = 0
    /\ run_rows = <<>>
    /\ since_t = 0
    /\ elapsed = 0
    /\ slept = 0
    /\ has_target \in BOOLEAN
    /\ has_target = FALSE => is_json = FALSE
    /\ returned = "none"
    /\ requests = <<>>
    /\ handed = [m \in Sites |-> 0]

AirNowNext ==
    \/ NewDownloader
    \/ Reset
    \/ CallDownload
    \/ CallDownloadRange
    \/ RangeIterate
    \/ GetContentAttempt
    \/ ProcessAndWrite



(* ============================== AQS flow =============================== *)
Urls == 1..MaxUrls

\* the header line of the AQS CSV file
AqsHeaderLine ==
    [kind |-> "header", url |-> 0, pos |-> 0, param |-> 0, Record |-> <<>>]

\* the archives the remote may serve: the parameter codes of the rows
Archives == UNION {[1..n -> Params] : n \in 0..MaxSrcRows}

\* the "Year" / "Date Local" year of the rows of the archive of URL u
YearOfUrl(u) == BaseYear + (u - 1)

\* the filter of download_data, lines 188-191
Keep(param, flt) == flt = {} \/ param \in flt

\* mutation of add_record_key: the increment is lost
add_record_key_stuck(index) == index

\* add_record_key: record_index += 1
add_record_key(index) == index + 1

RECURSIVE write_csv(_, _, _, _, _, _)
\* write_csv(reader, writer, transformer = add_more_columns, filter = flt):
\* the lines written for the rows from position pos on, the global
\* record_index being index; add_record_key increments it per transformed row
write_csv(rows, pos, u, flt, index, tfirst) ==
    IF pos > Len(rows) THEN <<>>
    ELSE LET keep == Keep(rows[pos], flt)
             transformed == tfirst \/ keep
             index1 == IF transformed THEN add_record_key(index) ELSE index
             line == [kind   |-> "row",
                      url    |-> u,
                      pos    |-> pos,
                      param  |-> rows[pos],
                      Record |-> add_record_num(YearOfUrl(u), index1)]
         IN (IF keep THEN <<line>> ELSE <<>>)
                \o write_csv(rows, pos + 1, u, flt, index1, tfirst)

RECURSIVE IndexAfter(_, _, _, _, _)
\* the global record_index once write_csv has consumed the rows from pos on
IndexAfter(rows, pos, flt, index, tfirst) ==
    IF pos > Len(rows) THEN index
    ELSE IndexAfter(rows, pos + 1, flt,
                    IF tfirst \/ Keep(rows[pos], flt)
                    THEN add_record_key(index) ELSE index,
                    tfirst)

\* transfer(reader, writer, flt, header): the lines appended for one URL
transfer(rows, u, flt, header, index, tfirst) ==
    (IF header THEN <<AqsHeaderLine>> ELSE <<>>)
        \o write_csv(rows, 1, u, flt, index, tfirst)

\* mutation of fopen_at: the file is opened with "wt"
fopen_wt(file) == <<>>

\* fopen(target, "at"): the content of the file once opened
fopen_at(file) == file

\* download_data, line 178: give up after this many failed attempts
GiveUp(failed) == failed > aqs_attempt_limit

\* mutation of SkipTask: the up-to-date test is dropped
NeverSkipTask(utd) == FALSE

\* AQS.download, lines 104-105: skip the task
SkipTask(utd) == utd

\* download_data, line 167
InitialWriteHeader == TRUE

AqsReady == apc \in {"idle", "done", "failed"}

EnterDownloadData ==
    /\ apc' = "open"
    /\ url' = 1
    /\ write_header' = InitialWriteHeader
    /\ attempt' = 0

ClearAqsCall ==
    /\ aqs_exc' = NoError
    /\ fetched' = <<>>
    /\ dest_before' = dest
    /\ written' = <<>>
    /\ exhausted_url' = 0

\* AQS.download for the task: skipped when up to date
CallAQSDownload ==
    /\ flow = "aqs"
    /\ AqsReady /\ aqs_ops < MaxAqsOps
    /\ aqs_ops' = aqs_ops + 1
    /\ \E utd \in (IF dest_exists THEN BOOLEAN ELSE {FALSE}) :
         /\ up_to_date' = utd
         /\ IF SkipTask(utd)
            THEN /\ apc' = "done"
                 /\ UNCHANGED <<url, write_header, attempt>>
            ELSE EnterDownloadData
    /\ ClearAqsCall
    /\ UNCHANGED <<dest, dest_exists, parameters, transform_first,
                   aqs_record_index, proc_rows>>
    /\ UNCHANGED outside_aqs

\* download_data(task) called as a library function
CallDownloadData ==
    /\ flow = "aqs"
    /\ AqsReady /\ aqs_ops < MaxAqsOps
    /\ aqs_ops' = aqs_ops + 1
    /\ up_to_date' = FALSE
    /\ EnterDownloadData
    /\ ClearAqsCall
    /\ UNCHANGED <<dest, dest_exists, parameters, transform_first,
                   aqs_record_index, proc_rows>>
    /\ UNCHANGED outside_aqs

\* a new process: the module global starts at 0 again
NewProcess ==
    /\ flow = "aqs"
    /\ AqsReady
    /\ aqs_record_index' = 0
    /\ proc_rows' = <<>>
    /\ apc' = "idle"
    /\ up_to_date' = FALSE
    /\ ClearAqsCall
    /\ UNCHANGED <<dest, dest_exists, parameters, transform_first, url,
                   write_header, attempt, aqs_ops>>
    /\ UNCHANGED outside_aqs

\* AQS.clear: task.reset() removes the destination
ClearTask ==
    /\ flow = "aqs"
    /\ AqsReady
    /\ dest' = <<>>
    /\ dest_exists' = FALSE
    /\ apc' = "idle"
    /\ up_to_date' = FALSE
    /\ aqs_exc' = NoError /\ fetched' = <<>> /\ dest_before' = <<>>
    /\ written' = <<>> /\ exhausted_url' = 0
    /\ UNCHANGED <<parameters, transform_first, aqs_record_index, url,
                   write_header, attempt, aqs_ops, proc_rows>>
    /\ UNCHANGED outside_aqs

\* download_data, lines 168-171: next URL, the destination is opened
OpenUrl ==
    /\ flow = "aqs"
    /\ apc = "open"
    /\ dest' = fopen_at(dest)
    /\ dest_exists' = TRUE
    /\ attempt' = 0
    /\ apc' = "fetch"
    /\ UNCHANGED <<parameters, transform_first, aqs_record_index, url,
                   write_header, aqs_exc, aqs_ops, up_to_date, fetched,
                   dest_before, written, exhausted_url, proc_rows>>
    /\ UNCHANGED outside_aqs

\* download_data, lines 172-193: one as_csv_reader attempt and, when it
\* succeeds, the transfer of the URL's rows
FetchAttempt ==
    /\ flow = "aqs"
    /\ apc = "fetch"
    /\ fetched' = IF attempt = 0 THEN Append(fetched, url) ELSE fetched
    /\ \/ \* as_csv_reader returns
          \E rows \in Archives :
            LET lines == transfer(rows, url, parameters, write_header,
                                  aqs_record_index, transform_first)
            IN /\ dest' = dest \o lines
               /\ written' = written \o lines
               /\ proc_rows' = proc_rows \o lines
               /\ aqs_record_index' =
                      IndexAfter(rows, 1, parameters, aqs_record_index,
                                 transform_first)
               /\ write_header' = FALSE
               /\ attempt' = attempt
               /\ IF url < MaxUrls
                  THEN url' = url + 1 /\ apc' = "open"
                  ELSE url' = url /\ apc' = "done"
               /\ UNCHANGED <<aqs_exc, exhausted_url>>
       \/ \* as_csv_reader raises
          /\ attempt' = attempt + 1
          /\ IF GiveUp(attempt + 1)
             THEN /\ apc' = "failed"
                  /\ aqs_exc' = FetchError(attempt + 1)
                  /\ exhausted_url' = url
             ELSE /\ apc' = "fetch"
                  /\ UNCHANGED <<aqs_exc, exhausted_url>>
          /\ UNCHANGED <<dest, written, aqs_record_index, write_header, url,
                         proc_rows>>
    /\ UNCHANGED <<dest_exists, parameters, transform_first, aqs_ops, up_to_date,
                   dest_before>>
    /\ UNCHANGED outside_aqs

AqsInit ==
    /\ dest = <<>>
    /\ dest_exists = FALSE
    /\ parameters \in {{}, {1}}
    /\ transform_first \in BOOLEAN
    /\ aqs_record_index = 0
    /\ apc = "idle"
    /\ url = 1
    /\ write_header = TRUE
    /\ attempt = 0
    /\ aqs_exc = NoError
    /\ aqs_ops = 0
    /\ up_to_date = FALSE
    /\ fetched = <<>>
    /\ dest_before = <<>>
    /\ written = <<>>
    /\ exhausted_url = 0
    /\ proc_rows = <<>>

AqsNext ==
    \/ CallAQSDownload
    \/ CallDownloadData
    \/ NewProcess
    \/ ClearTask
    \/ OpenUrl
    \/ FetchAttempt

(* ============================ task planner ============================= *)
\* the sequences over S of length lo..hi
SeqsOf(S, lo, hi) == UNION {[1..n -> S] : n \in lo..hi}

PlanYears == PlanFirstYear..(PlanFirstYear + MaxPlanSpan - 1)

RECURSIVE insert(_, _)
\* x put into the ascending list s, after the elements equal to it
insert(x, s) ==
    IF s = <<>> THEN <<x>>
    ELSE IF x < Head(s) THEN <<x>> \o s
    ELSE <<Head(s)>> \o insert(x, Tail(s))

RECURSIVE InsertionSort(_)
\* the ascending arrangement of a list, repeated elements kept
InsertionSort(s) ==
    IF s = <<>> THEN <<>>
    ELSE insert(s[Len(s)], InsertionSort(SubSeq(s, 1, Len(s) - 1)))

\* mutation of sorted: the list is left in the requested order
unsorted(s) == s

\* sorted(list), lines 286 and 297
sorted(s) == InsertionSort(s)

\* mutation of SameSegment: merge_years is not looked at
SameSegmentAlways(merge_years, prev, cur) == prev = cur - 1

\* collect_aqs_download_tasks, line 290: years[i] joins the running segment
SameSegment(merge_years, prev, cur) == merge_years /\ prev = cur - 1

RECURSIVE segments(_, _, _, _)
\* the loop of lines 289-294 from index i on; the last element of acc is the
\* running segment
segments(years, i, merge_years, acc) ==
    IF i > Len(years) THEN acc
    ELSE IF SameSegment(merge_years, years[i - 1], years[i])
         THEN segments(years, i + 1, merge_years,
                       [acc EXCEPT ![Len(acc)] = Append(@, years[i])])
         ELSE segments(years, i + 1, merge_years, Append(acc, <<years[i]>>))

\* lines 286-294: contiguous_years for a non-empty list of years
ContiguousYears(years, merge_years) ==
    segments(sorted(years), 2, merge_years, << <<sorted(years)[1]>> >>)

\* lines 301-304: the label of a segment, str(first) or "first-last"
YearLabel(segment) ==
    IF Len(segment) = 1 THEN <<segment[1]>>
    ELSE <<segment[1], segment[Len(segment)]>>

\* BASE_AQS_EPA_URL + ANNUAL_URI.format(year = year)
AnnualUrl(year) == [kind |-> "annual", parameter |-> 0, year |-> year]

\* BASE_AQS_EPA_URL + DAILY_URI.format(parameter = int(parameter), year = year)
DailyUrl(parameter, year) ==
    [kind |-> "daily", parameter |-> parameter, year |-> year]

\* mutation of AnnualUrls: only the first year of the segment gets a URL
AnnualUrlsFirstOnly(segment) == <<AnnualUrl(segment[1])>>

\* collect_annual_downloads, lines 231-232: one URL per year of the segment
AnnualUrls(segment) == [i \in DOMAIN segment |-> AnnualUrl(segment[i])]

\* collect_annual_downloads: the task of a segment
collect_annual_downloads(segment, pars) ==
    [target   |-> [kind |-> "annual", label |-> YearLabel(segment), pars |-> pars],
     urls     |-> AnnualUrls(segment),
     metadata |-> pars]

\* collect_daily_downloads: the task of a segment and one parameter
collect_daily_downloads(segment, parameter) ==
    [target   |-> [kind |-> "daily", label |-> YearLabel(segment),
                   pars |-> <<parameter>>],
     urls     |-> [i \in DOMAIN segment |-> DailyUrl(parameter, segment[i])],
     metadata |-> <<>>]

\* lines 306-315: the tasks appended for one segment
TasksOfSegment(aggregation, segment, pars) ==
    IF aggregation = "annual"
    THEN <<collect_annual_downloads(segment, pars)>>
    ELSE [j \in DOMAIN pars |-> collect_daily_downloads(segment, pars[j])]

RECURSIVE Downloads(_, _, _)
\* lines 299-316: the loop over the segments
Downloads(segs, aggregation, pars) ==
    IF segs = <<>> THEN <<>>
    ELSE TasksOfSegment(aggregation, Head(segs), pars)
             \o Downloads(Tail(segs), aggregation, pars)

\* mutation of ParametersGiven: the assertion is dropped
ParametersNotChecked(pars) == TRUE

\* line 284: assert len(parameters) > 0
ParametersGiven(pars) == Len(pars) > 0

\* collect_aqs_download_tasks(context)
CollectTasks ==
    /\ flow = "planner"
    /\ plan_pc = "idle"
    /\ IF ctx_aggregation = "daily" /\ ~ParametersGiven(ctx_parameters)
       THEN /\ plan_pc' = "failed"
            /\ plan_exc' = Error("AssertionError")
            /\ UNCHANGED <<contiguous_years, downloads>>
       ELSE /\ plan_pc' = "returned"
            /\ plan_exc' = NoError
            /\ contiguous_years' = ContiguousYears(ctx_years, ctx_merge_years)
            /\ downloads' = Downloads(contiguous_years', ctx_aggregation,
                                      sorted(ctx_parameters))
    /\ UNCHANGED <<ctx_years, ctx_parameters, ctx_aggregation, ctx_merge_years>>
    /\ UNCHANGED outside_planner

PlannerInit ==
    /\ ctx_years \in SeqsOf(PlanYears, 1, MaxYearList)
    /\ ctx_parameters \in SeqsOf(Params, 0, MaxParamList)
    /\ ctx_aggregation \in {"annual", "daily"}
    /\ ctx_merge_years \in BOOLEAN
    /\ plan_pc = "idle"
    /\ contiguous_years = <<>>
    /\ downloads = <<>>
    /\ plan_exc = NoError

PlannerNext == CollectTasks

(* ============================ GISAnnotator ============================= *)
ZIP_COLUMNS == {"ZCTA"}

COUNTY_COLUMNS == {"STATEFP", "COUNTYFP"}

CALCULATED_COLUMNS == {"COUNTY", "STUSPS", "STATEISO", "STATE", "FIPS5"}

\* the column names an annotator is asked for ("xx" is no known column)
RequestableColumns == {"ZCTA", "STATEFP", "COUNTYFP", "FIPS5", "xx"}

\* the schemas of the shape files: a file with a ZIP column, one with a
\* ZCTA5CE10 column, one with STATEFP and COUNTYFP, one with none of them
Schemas == {"ZIP", "ZCTA5CE10", "COUNTY", "OTHER"}

Points == 1..MaxPoint

\* a column the frame does not have
absent == -2

\* numpy.nan
nan == -1

\* Python's None
none == -3

\* the polygons of a zip file: point 1 lies in one of them, point 2 in both
ZipPolygons ==
    << [area |-> {1, 2}, ZCTA |-> 1, STATEFP |-> absent, COUNTYFP |-> absent],
       [area |-> {2}, ZCTA |-> 2, STATEFP |-> absent, COUNTYFP |-> absent] >>

\* the polygons of a county file: points 1 and 2 lie in its one polygon
CountyPolygons ==
    << [area |-> {1, 2}, ZCTA |-> absent, STATEFP |-> 9, COUNTYFP |-> 1] >>

\* GeoDataFrame.from_file(filename): the polygons of a file
from_file(schema) ==
    IF schema \in {"ZIP", "ZCTA5CE10"} THEN ZipPolygons
    ELSE IF schema = "COUNTY" THEN CountyPolygons
    ELSE << [area |-> {3}, ZCTA |-> absent, STATEFP |-> absent,
             COUNTYFP |-> absent] >>

\* self.zip_shapes / self.county_shapes is None
NoLayer == [file |-> 0, polygons |-> <<>>]

\* a row of the frame handed to join: its position and its point
InputRow(i, point) ==
    [pos |-> i, point |-> point, ZCTA |-> absent, STATEFP |-> absent,
     COUNTYFP |-> absent, FIPS5 |-> absent]

\* the frames join may be called with
Batches ==
    UNION {{[i \in 1..n |-> InputRow(i, f[i])] : f \in [1..n -> Points]} :
               n \in 0..MaxBatch}

\* mutation of UnknownColumns: every name is taken as known
UnknownColumnsNone(cols) == {}

\* __init__, line 122: the requested names outside the known sets
UnknownColumns(cols) ==
    cols \ (ZIP_COLUMNS \cup COUNTY_COLUMNS \cup CALCULATED_COLUMNS)

\* mutation of IsEmpty: the emptiness test is dropped
IsEmptyNever(frame) == FALSE

\* join, line 143: df.empty
IsEmpty(frame) == Len(frame) = 0

RECURSIVE LoadFrom(_, _, _, _)
\* _load_shape_files, lines 172-184: the loop over the files from index i on
LoadFrom(files, i, zip, county) ==
    IF i > Len(files) THEN [zip |-> zip, county |-> county]
    ELSE LET data == [file |-> i, polygons |-> from_file(files[i])]
         IN  IF files[i] \in {"ZIP", "ZCTA5CE10"}
             THEN LoadFrom(files, i + 1, data, county)
             ELSE IF files[i] = "COUNTY"
             THEN LoadFrom(files, i + 1, zip, data)
             ELSE LoadFrom(files, i + 1, zip, county)

\* _load_shape_files: the layers after it and the files it read
load_shape_files(files, zip, county) ==
    IF zip # NoLayer \/ county # NoLayer
    THEN [zip |-> zip, county |-> county, loads |-> 0]
    ELSE [zip    |-> LoadFrom(files, 1, zip, county).zip,
          county |-> LoadFrom(files, 1, zip, county).county,
          loads  |-> Len(files)]

\* mutation of check_columns: only the zip layer is checked
check_columns_zip_only(cols, zip, county) ==
    IF (cols \cap {"ZCTA"}) # {} /\ zip.file = 0
    THEN "ZIP column is requested, but no zip shape file found"
    ELSE "none"

\* _check_columns: the error it raises, "none" if it returns
check_columns(cols, zip, county) ==
    IF (cols \cap ZIP_COLUMNS) # {} /\ zip = NoLayer
    THEN "ZIP column is requested, but no zip shape file found"
    ELSE IF (cols \cap COUNTY_COLUMNS) # {} /\ county = NoLayer
    THEN "County columns are requested, but no county shape file found"
    ELSE "none"

\* the right-hand side of a left join for a point in no polygon
NoMatch == [area |-> {}, ZCTA |-> nan, STATEFP |-> nan, COUNTYFP |-> nan]

\* mutation of Matches: no point lies in any polygon
MatchesNothing(point, polygons) == <<>>

\* the polygons the point lies in, in the order of the layer
Matches(point, polygons) == SelectSeq(polygons, LAMBDA g : point \in g.area)

RECURSIVE sjoin(_, _)
\* geopandas.sjoin(points, shape, how = 'left'): one pair per matching
\* polygon, one pair with nulls for a point in no polygon, in the order of the
\* points
sjoin(points, polygons) ==
    IF points = <<>> THEN <<>>
    ELSE LET m == Matches(Head(points).point, polygons)
         IN  (IF m = <<>>
              THEN << [left |-> Head(points), right |-> NoMatch] >>
              ELSE [j \in DOMAIN m |-> [left |-> Head(points), right |-> m[j]]])
                 \o sjoin(Tail(points), polygons)

\* _add_shape_columns, lines 195-198: pts[target_columns]
add_shape_columns(frame, polygons, shape_columns, cols) ==
    LET pts == sjoin(frame, polygons)
    IN  [k \in DOMAIN pts |->
            [c \in DOMAIN pts[k].left |->
                IF c \in (cols \cap shape_columns)
                THEN pts[k].right[c] ELSE pts[k].left[c]]]

\* state_fp + county_fp for two FIPS strings
Concat(state_fp, county_fp) == 1000 * state_fp + county_fp

\* _add_calculated_columns for FIPS5, lines 204-217
add_calculated_columns(frame, cols) ==
    IF frame = <<>> \/ frame[1].STATEFP = absent \/ "FIPS5" \notin cols
    THEN frame
    ELSE [k \in DOMAIN frame |->
            [frame[k] EXCEPT !.FIPS5 =
                IF frame[k].STATEFP # nan
                THEN Concat(frame[k].STATEFP, frame[k].COUNTYFP)
                ELSE none]]

\* join, lines 149-159, for a non-empty frame whose columns were checked;
\* keeps_extra_rows tells what GeoDataFrame(pts[target_columns], geometry =
\* geometry) does when the join returned more rows than there are points:
\* it keeps them, or it raises for the length mismatch
JoinLayers(frame, zip, county, cols, keeps_extra_rows) ==
    LET n == Len(frame)
        with_zip == IF zip # NoLayer
                    THEN add_shape_columns(frame, zip.polygons, ZIP_COLUMNS, cols)
                    ELSE frame
        zip_failed == Len(with_zip) # n /\ ~keeps_extra_rows
        with_county ==
            IF county # NoLayer
            THEN add_shape_columns(with_zip, county.polygons, COUNTY_COLUMNS, cols)
            ELSE with_zip
        county_failed == Len(with_county) # n /\ ~keeps_extra_rows
        sjoins == (IF zip # NoLayer THEN 1 ELSE 0)
                      + (IF county # NoLayer /\ ~zip_failed THEN 1 ELSE 0)
        key_error == /\ with_county # <<>>
                     /\ with_county[1].STATEFP # absent
                     /\ "FIPS5" \in cols
                     /\ with_county[1].COUNTYFP = absent
    IN  IF zip_failed \/ county_failed
        THEN [pc |-> "raised", exc |-> Error("ValueError: length mismatch"),
              frame |-> <<>>, sjoins |-> sjoins]
        ELSE IF key_error
        THEN [pc |-> "raised", exc |-> Error("KeyError: COUNTYFP"),
              frame |-> <<>>, sjoins |-> sjoins]
        ELSE [pc |-> "returned", exc |-> NoError,
              frame |-> add_calculated_columns(with_county, cols),
              sjoins |-> sjoins]

\* GISAnnotator(shape_files, columns)
NewAnnotator ==
    /\ flow = "gis"
    /\ gis_pc = "none"
    /\ \E files \in SeqsOf(Schemas, 0, MaxShapeFiles),
          cols \in SUBSET RequestableColumns :
         /\ columns' = cols
         /\ shape_files' = files
         /\ IF UnknownColumns(cols) # {}
            THEN /\ gis_pc' = "rejected"
                 /\ gis_exc' = Error("Unknown requested columns")
            ELSE /\ gis_pc' = "constructed"
                 /\ gis_exc' = NoError
    /\ UNCHANGED <<zip_shapes, county_shapes, df, joined, join_calls,
                   file_loads, column_checks, sjoin_calls>>
    /\ UNCHANGED outside_gis

\* GISAnnotator.join(df)
Join ==
    /\ flow = "gis"
    /\ gis_pc \in {"constructed", "returned", "raised"}
    /\ join_calls < MaxJoins
    /\ join_calls' = join_calls + 1
    /\ \E frame \in Batches, keeps_extra_rows \in BOOLEAN :
         /\ df' = frame
         /\ IF IsEmpty(frame)
            THEN /\ gis_pc' = "returned"
                 /\ joined' = frame
                 /\ gis_exc' = NoError
                 /\ file_loads' = 0 /\ column_checks' = 0 /\ sjoin_calls' = 0
                 /\ UNCHANGED <<zip_shapes, county_shapes>>
            ELSE LET loaded == load_shape_files(shape_files, zip_shapes,
                                                county_shapes)
                     error == check_columns(columns, loaded.zip, loaded.county)
                     out == JoinLayers(frame, loaded.zip, loaded.county,
                                       columns, keeps_extra_rows)
                 IN  /\ zip_shapes' = loaded.zip
                     /\ county_shapes' = loaded.county
                     /\ file_loads' = loaded.loads
                     /\ column_checks' = 1
                     /\ IF error # "none"
                        THEN /\ gis_pc' = "raised"
                             /\ gis_exc' = Error(error)
                             /\ joined' = <<>>
                             /\ sjoin_calls' = 0
                        ELSE /\ gis_pc' = out.pc
                             /\ gis_exc' = out.exc
                             /\ joined' = out.frame
                             /\ sjoin_calls' = out.sjoins
    /\ UNCHANGED <<shape_files, columns>>
    /\ UNCHANGED outside_gis

GisInit ==
    /\ shape_files = <<>>
    /\ columns = {}
    /\ zip_shapes = NoLayer
    /\ county_shapes = NoLayer
    /\ gis_pc = "none"
    /\ df = <<>>
    /\ joined = <<>>
    /\ gis_exc = NoError
    /\ join_calls = 0
    /\ file_loads = 0
    /\ column_checks = 0
    /\ sjoin_calls = 0

GisNext ==
    \/ NewAnnotator
    \/ Join

(* ========================== specifications ============================= *)
vars == <<flow, airnow_vars, aqs_vars, planner_vars, gis_vars>>

\* one of the two programs runs; the other one stands still
Init ==
    /\ flow \in {"airnow", "aqs", "planner", "gis"}
    /\ AirNowInit
    /\ AqsInit
    /\ PlannerInit
    /\ GisInit
    /\ flow # "aqs" => (parameters = {} /\ transform_first = TRUE)
    /\ flow # "airnow" =>
          (is_json = TRUE /\ has_target = TRUE /\ t_int = T_INT(TRUE))
    /\ flow # "planner" =>
          /\ ctx_years = <<PlanFirstYear>> /\ ctx_parameters = <<>>
          /\ ctx_aggregation = "annual" /\ ctx_merge_years = FALSE

Next == AirNowNext \/ AqsNext \/ PlannerNext \/ GisNext

Spec == Init /\ [][Next]_vars

\* the AirNow flow alone
InitAirNow == Init /\ flow = "airnow"

SpecAirNow == InitAirNow /\ [][AirNowNext]_vars

\* the AQS flow alone
InitAQS == Init /\ flow = "aqs"

SpecAQS == InitAQS /\ [][AqsNext]_vars

\* the task planner alone
InitPlanner == Init /\ flow = "planner"

SpecPlanner == InitPlanner /\ [][PlannerNext]_vars

\* the annotator alone
InitGIS == Init /\ flow = "gis"

SpecGIS == InitGIS /\ [][GisNext]_vars

(* ============================== claims ================================ *)
\* the days start..end in ascending order, none when start > end
DaysFromTo(start, end) ==
    IF start > end THEN <<>> ELSE [i \in 1..(end - start + 1) |-> start + i - 1]

\* C1: when download_range(start_date, end_date) returns, download has been
\* called exactly once for each day start_date..end_date, in ascending order,
\* and for no other day (no day at all when start_date > end_date).
C1_RangeCallsEachDayOnce ==
    (mode = "range" /\ pc = "done") => day_calls = DaysFromTo(start_date, end_date)

\* the lines of rows that belong to day d
RowsOfDay(rows, d) == {i \in DOMAIN rows : rows[i].day = d}

IsSuffix(s, t) ==
    Len(s) <= Len(t) /\ SubSeq(t, Len(t) - Len(s) + 1, Len(t)) = s

\* C2: once the processed result of a day is empty the call has failed on that
\* day: no request was issued for a later day, the file is as it was when the
\* day's download was entered, and the rows of every earlier day of the range
\* are at the end of the file.
C2_EmptyDayIsFatal ==
    empty_day # 0 =>
        /\ pc = "failed"
        /\ exc.kind \in {"KeyError", "Empty response"}
        /\ dt = empty_day
        /\ \A i \in DOMAIN req_days : req_days[i] <= empty_day
        /\ mode = "range" =>
              /\ day_calls # <<>>
              /\ day_calls[Len(day_calls)] = empty_day
              /\ \A i \in 1..(Len(day_calls) - 1) :
                    RowsOfDay(range_rows, day_calls[i]) # {}
        /\ RowsOfDay(range_rows, empty_day) = {}
        /\ target = file_before
        /\ IsSuffix(range_rows, target)

\* C2 witness: the second day of a range is empty after the first day wrote rows
C2_Witness ==
    /\ empty_day # 0
    /\ pc = "failed"
    /\ mode = "range"
    /\ Len(day_calls) = 2
    /\ range_rows # <<>>

\* C3: get_content makes at most 5 attempts; it returns at the first success
\* (one call more than it slept); after each of the first 4 failures it sleeps
\* 10 seconds; the 5th failure is raised unchanged, with no sleep after it.
C3_GetContentRetries ==
    /\ tries <= 5
    /\ \A i \in DOMAIN naps : naps[i] = 10
    /\ gc_state = "running" =>
          /\ tries <= 4 /\ attempts = tries /\ Len(naps) = tries
          /\ last_error = tries
    /\ gc_state = "returned" =>
          /\ Len(naps) = tries - 1
          /\ contents # <<>>
    /\ gc_state = "raised" =>
          /\ tries = 5
          /\ Len(naps) = 4
          /\ pc = "failed"
          /\ exc = FetchError(5)
          /\ last_error = 5

\* C3 witness: a request that raised after its attempts were exhausted
C3_Witness == gc_state = "raised" /\ tries = 5 /\ Len(naps) = 4

\* C3 witness: a request that returned after failed attempts
C3_WitnessReturned == gc_state = "returned" /\ tries = 3

\* C4: an AQS.download that finds the task up to date returns at once: no URL
\* was fetched, nothing was written and the destination is as it was.
C4_UpToDateIsNoOp ==
    up_to_date =>
        /\ apc = "done"
        /\ fetched = <<>>
        /\ written = <<>>
        /\ dest = dest_before
        /\ dest_exists

\* C4 witness: an up-to-date task whose destination holds rows was skipped
C4_Witness == up_to_date /\ apc = "done" /\ Len(dest) > 1

\* the header lines of a file
HeaderLines(file) == {i \in DOMAIN file : file[i].kind = "header"}

\* C5: in every reachable state of the AQS destination the file, when not
\* empty, holds exactly one header row and it is the first line.
C5_OneHeaderFirstLine ==
    dest # <<>> => HeaderLines(dest) = {1}

\* C6: once the attempts for URL k are exhausted, download_data has raised on
\* URL k: no later URL was fetched or written, and the file is what it was at
\* entry followed by the lines written for the URLs before k.
C6_FetchFailureAborts ==
    exhausted_url # 0 =>
        /\ apc = "failed"
        /\ aqs_exc.kind = "fetch"
        /\ url = exhausted_url
        /\ fetched = [i \in 1..exhausted_url |-> i]
        /\ \A i \in DOMAIN written :
              written[i].kind = "row" => written[i].url < exhausted_url
        /\ dest = dest_before \o written

\* C6 witness: the second URL failed after the first one wrote lines
C6_Witness ==
    /\ exhausted_url = 2
    /\ \E i \in DOMAIN written : written[i].kind = "row"
    /\ dest_before # <<>>

RECURSIVE DigitsValue(_, _)
\* int(s) for a string of decimal digits, acc the value read so far
DigitsValue(str, acc) ==
    IF str = <<>> THEN acc
    ELSE DigitsValue(Tail(str), 10 * acc + (CharOrd(Head(str)) - 1))

RECURSIVE AfterDash(_)
\* the part of a Record key after its '-'
AfterDash(str) == IF Head(str) = "-" THEN Tail(str) ELSE AfterDash(Tail(str))

\* the sequence number of a Record key
SeqOf(record) == DigitsValue(AfterDash(record), 0)

\* the Record keys of the rows of a file, in write order
RecordsOf(file) ==
    LET rows == SelectSeq(file, LAMBDA line : line.kind = "row")
    IN  [i \in DOMAIN rows |-> rows[i].Record]

\* the sequence numbers of the keys are strictly increasing
SeqIncreasing(keys) ==
    \A i, j \in DOMAIN keys : i < j => SeqOf(keys[i]) < SeqOf(keys[j])

\* the keys are pairwise distinct
Distinct(keys) ==
    \A i, j \in DOMAIN keys : i # j => keys[i] # keys[j]

\* C7: the rows given a Record key by one AirNowDownloader instance, and the
\* rows written by one process of the AQS flow, carry strictly increasing
\* sequence numbers, hence pairwise distinct Record keys.
C7_RunRecordKeysIncrease ==
    /\ SeqIncreasing(RecordsOf(run_rows))
    /\ Distinct(RecordsOf(run_rows))
    /\ SeqIncreasing(RecordsOf(proc_rows))
    /\ Distinct(RecordsOf(proc_rows))

\* C7 witness: an AQS process that wrote several rows over two executions
C7_Witness == Len(RecordsOf(proc_rows)) >= 3 /\ aqs_ops = 2

\* C7 witness: a downloader that keyed rows of two days
C7_WitnessAirNow ==
    /\ Len(run_rows) >= 3
    /\ \E i, j \in DOMAIN run_rows : run_rows[i].day # run_rows[j].day

\* the keys are strictly increasing, as strings or by sequence number
KeysIncreasing(keys) ==
    \A i, j \in DOMAIN keys :
        i < j => (StrLess(keys[i], keys[j]) \/ SeqOf(keys[i]) < SeqOf(keys[j]))

\* C8: in every reachable state of an output file the Record keys of its rows
\* are pairwise distinct and strictly increasing in write order.
C8_FileRecordKeysUnique ==
    /\ Distinct(RecordsOf(target)) /\ KeysIncreasing(RecordsOf(target))
    /\ Distinct(RecordsOf(dest)) /\ KeysIncreasing(RecordsOf(dest))

\* C9: every step except an explicit reset leaves the previous content of the
\* destination as a prefix of its new content.
C9_AppendOnly ==
    [][ /\ target_exists' => IsPrefix(target, target')
        /\ dest_exists' => IsPrefix(dest, dest') ]_vars

\* C10: a non-empty CSV destination of the AirNow flow starts with the header
\* row and holds no other header row.
C10_CsvHeaderOnceFirst ==
    (~is_json /\ target # <<>>) => HeaderLines(target) = {1}

\* the rows of a file or of a list of rows whose site lies in no polygon
UnlocatedRows(rows) ==
    {i \in DOMAIN rows : rows[i].kind = "row" /\ ~Located(rows[i].site)}

\* C11: an aggregated row whose site matches no polygon of any layer is
\* dropped: process returns no such row, none is in the destination file and
\* none was given a Record or Monitor key.
C11_UnlocatedRowsDropped ==
    /\ UnlocatedRows(run_rows) = {}
    /\ UnlocatedRows(target) = {}

RECURSIVE Flatten(_)
\* the concatenation of a list of lists
Flatten(ss) == IF ss = <<>> THEN <<>> ELSE Head(ss) \o Flatten(Tail(ss))

\* the list is in ascending order (repeated elements allowed)
Ascending(s) == \A i \in 1..(Len(s) - 1) : s[i] <= s[i + 1]

\* the number of positions of s that hold x
Count(s, x) == Cardinality({i \in DOMAIN s : s[i] = x})

\* s is the ascending arrangement of t
IsSortedListOf(s, t) ==
    /\ Len(s) = Len(t)
    /\ Ascending(s)
    /\ \A x \in Range(s) \cup Range(t) : Count(s, x) = Count(t, x)

\* every year of the segment is the year before it plus one
Consecutive(segment) ==
    \A i \in 1..(Len(segment) - 1) : segment[i + 1] = segment[i] + 1

\* C12: the segments are non-empty and their concatenation is the sorted list
\* of the requested years; with merge_years every segment is a run of
\* consecutive years and no two neighbouring segments could be joined (the
\* runs are maximal); without merge_years every segment is a single year.
C12_SegmentsAreMaximalRuns ==
    plan_pc = "returned" =>
        /\ \A k \in DOMAIN contiguous_years : contiguous_years[k] # <<>>
        /\ IsSortedListOf(Flatten(contiguous_years), ctx_years)
        /\ ctx_merge_years =>
              /\ \A k \in DOMAIN contiguous_years :
                    Consecutive(contiguous_years[k])
              /\ \A k \in 1..(Len(contiguous_years) - 1) :
                    LET seg == contiguous_years[k]
                    IN  contiguous_years[k + 1][1] # seg[Len(seg)] + 1
        /\ ~ctx_merge_years =>
              \A k \in DOMAIN contiguous_years : Len(contiguous_years[k]) = 1

\* C12 witness: merged years with a gap: a run of two years and a single year
C12_Witness ==
    /\ plan_pc = "returned" /\ ctx_merge_years
    /\ Len(contiguous_years) = 2
    /\ \E k \in DOMAIN contiguous_years : Len(contiguous_years[k]) = 2
    /\ ctx_years # Flatten(contiguous_years)

\* C12 witness: consecutive years that are not merged
C12_WitnessSingletons ==
    /\ plan_pc = "returned" /\ ~ctx_merge_years
    /\ Len(contiguous_years) = 3
    /\ Consecutive(Flatten(contiguous_years))

\* C13: for annual aggregation there is one task per segment, in segment
\* order; its URLs are the annual URLs of the years of the segment, in
\* ascending order, and its filter is the set of the requested parameters
\* (empty, no filter, when none was requested).
C13_AnnualOneTaskPerSegment ==
    (plan_pc = "returned" /\ ctx_aggregation = "annual") =>
        /\ Len(downloads) = Len(contiguous_years)
        /\ \A k \in DOMAIN downloads :
              LET task == downloads[k]
                  seg == contiguous_years[k]
              IN  /\ Len(task.urls) = Len(seg)
                  /\ \A i \in DOMAIN seg :
                        /\ task.urls[i].kind = "annual"
                        /\ task.urls[i].year = seg[i]
                  /\ \A i \in 1..(Len(seg) - 1) :
                        task.urls[i].year < task.urls[i + 1].year
                  /\ Range(task.metadata) = Range(ctx_parameters)
                  /\ ctx_parameters = <<>> => task.metadata = <<>>

\* C13 witness: two annual tasks, the first for a segment of two years, with
\* a parameter filter
C13_Witness ==
    /\ plan_pc = "returned" /\ ctx_aggregation = "annual"
    /\ Len(downloads) = 2
    /\ Len(downloads[1].urls) = 2
    /\ downloads[1].metadata # <<>>

\* the parameter a daily task downloads
ParameterOf(task) == task.urls[1].parameter

\* C14: for daily aggregation the tasks are, segment after segment in year
\* order, one task per parameter of the sorted parameter list; each has the
\* daily URLs of its single parameter for the years of the segment.
C14_DailyTaskPerSegmentAndParameter ==
    (plan_pc = "returned" /\ ctx_aggregation = "daily") =>
        LET np == Len(ctx_parameters)
        IN  /\ Len(downloads) = Len(contiguous_years) * np
            /\ \A k \in DOMAIN contiguous_years :
                  LET seg == contiguous_years[k]
                      tasks == SubSeq(downloads, (k - 1) * np + 1, k * np)
                  IN  /\ IsSortedListOf([j \in 1..np |-> ParameterOf(tasks[j])],
                                        ctx_parameters)
                      /\ \A j \in 1..np :
                            /\ Len(tasks[j].urls) = Len(seg)
                            /\ \A i \in DOMAIN seg :
                                  /\ tasks[j].urls[i].kind = "daily"
                                  /\ tasks[j].urls[i].year = seg[i]
                                  /\ tasks[j].urls[i].parameter
                                        = ParameterOf(tasks[j])

\* C14 witness: two segments and two parameters requested in descending order
C14_Witness ==
    /\ plan_pc = "returned" /\ ctx_aggregation = "daily"
    /\ Len(contiguous_years) = 2
    /\ Len(downloads) = 4
    /\ Len(ctx_parameters) = 2 /\ ctx_parameters[1] > ctx_parameters[2]

\* C15: daily aggregation with no parameter fails and produces no task;
\* annual aggregation with no parameter returns tasks that have no filter.
C15_DailyNeedsParameters ==
    plan_pc # "idle" =>
        /\ (ctx_aggregation = "daily" /\ ctx_parameters = <<>>) =>
              /\ plan_pc = "failed"
              /\ plan_exc.kind = "AssertionError"
              /\ downloads = <<>>
        /\ (ctx_aggregation = "annual" /\ ctx_parameters = <<>>) =>
              /\ plan_pc = "returned"
              /\ downloads # <<>>
              /\ \A k \in DOMAIN downloads : downloads[k].metadata = <<>>

\* C15 witness: a daily plan without parameters that failed
C15_Witness ==
    plan_pc = "failed" /\ ctx_aggregation = "daily" /\ ctx_parameters = <<>>

\* C15 witness: an annual plan without parameters that returned tasks
C15_WitnessAnnual ==
    plan_pc = "returned" /\ ctx_aggregation = "annual" /\ ctx_parameters = <<>>

\* C16: an iteration of download_range that took less than 7.2 seconds is
\* followed by a sleep of exactly the remainder, one that took 7.2 seconds or
\* more by no sleep, and the next iteration starts at least 7.2 seconds after
\* the start of the one before it.
C16_PacingBetweenDays ==
    [][ (pc = "loop" /\ pc' = "request" /\ day_calls # <<>>) =>
            /\ elapsed < 72 => slept = 72 - elapsed
            /\ elapsed >= 72 => slept = 0
            /\ since_t >= 72 ]_vars

\* C16 witness: an iteration that took less than 7.2 seconds and slept before
\* the next one
C16_Witness ==
    /\ pc = "loop" /\ day_calls # <<>>
    /\ elapsed > 0 /\ elapsed < 72 /\ slept > 0

\* C16 witness: an iteration that retried a request, took more than 7.2
\* seconds and did not sleep before the next one
C16_WitnessNoSleep ==
    /\ pc = "loop" /\ day_calls # <<>>
    /\ elapsed > 100 /\ slept = 0

\* the errors join raises for the requested columns, whatever the points are
ColumnErrors ==
    {"ZIP column is requested, but no zip shape file found",
     "County columns are requested, but no county shape file found",
     "KeyError: COUNTYFP"}

\* C17: for every non-empty batch and every set of loaded layers the result
\* of join has exactly one row per input row, in the input order.
C17_JoinKeepsRows ==
    (join_calls > 0 /\ df # <<>> /\ gis_exc.kind \notin ColumnErrors) =>
        /\ gis_pc = "returned"
        /\ Len(joined) = Len(df)
        /\ \A i \in DOMAIN joined :
              joined[i].pos = i /\ joined[i].point = df[i].point

\* C18: join on an empty batch returns the batch as it is; it reads no shape
\* file, checks no column and runs no spatial join, whatever was requested
\* and configured.
C18_EmptyBatchIsReturned ==
    (join_calls > 0 /\ df = <<>>) =>
        /\ gis_pc = "returned"
        /\ joined = df
        /\ file_loads = 0 /\ column_checks = 0 /\ sjoin_calls = 0
        /\ join_calls = 1 => (zip_shapes = NoLayer /\ county_shapes = NoLayer)

\* C18 witness: an empty batch joined by an annotator whose requested ZCTA
\* column has no layer among the configured files
C18_Witness ==
    /\ join_calls = 1 /\ df = <<>> /\ gis_pc = "returned"
    /\ "ZCTA" \in columns /\ shape_files = <<"COUNTY", "OTHER">>

\* the polygons of a layer the point lies in
PolygonsAt(layer, point) ==
    {k \in DOMAIN layer.polygons : point \in layer.polygons[k].area}

\* no point of the frame lies in two polygons of the same layer
InOnePolygonAtMost(frame) ==
    \A i \in DOMAIN frame :
        /\ Cardinality(PolygonsAt(zip_shapes, frame[i].point)) <= 1
        /\ Cardinality(PolygonsAt(county_shapes, frame[i].point)) <= 1

\* C19: with a zip layer loaded and ZCTA requested, join does not raise; a
\* point inside a polygon gets the ZCTA of that polygon, a point outside every
\* polygon of the layer gets NaN.
C19_ZctaOfPoint ==
    /\ (join_calls > 0 /\ df # <<>> /\ zip_shapes # NoLayer
            /\ columns = {"ZCTA"} /\ InOnePolygonAtMost(df))
          => gis_pc = "returned"
    /\ (gis_pc = "returned" /\ df # <<>> /\ "ZCTA" \in columns) =>
          /\ zip_shapes # NoLayer
          /\ \A k \in DOMAIN joined :
                LET inside == PolygonsAt(zip_shapes, joined[k].point)
                IN  /\ inside = {} => joined[k].ZCTA = nan
                    /\ inside # {} =>
                          \E g \in inside :
                              joined[k].ZCTA = zip_shapes.polygons[g].ZCTA

\* C19 witness: a batch of a point inside a polygon and a point outside all
C19_Witness ==
    /\ gis_pc = "returned" /\ columns = {"ZCTA"} /\ Len(joined) = 2
    /\ joined[1].ZCTA = 1 /\ joined[2].ZCTA = nan

\* the names in ZIP_COLUMNS, COUNTY_COLUMNS and CALCULATED_COLUMNS
KnownColumnNames ==
    {"ZCTA", "STATEFP", "COUNTYFP", "COUNTY", "STUSPS", "STATEISO", "STATE",
     "FIPS5"}

\* C20: the constructor raises ValueError('Unknown requested columns') exactly
\* for the column lists that hold a name outside the known sets; a rejected
\* annotator never joined or loaded anything.
C20_UnknownColumnsRejected ==
    gis_pc # "none" =>
        /\ gis_pc = "rejected" <=> ~(columns \subseteq KnownColumnNames)
        /\ gis_pc = "rejected" =>
              /\ gis_exc = Error("Unknown requested columns")
              /\ join_calls = 0 /\ file_loads = 0 /\ sjoin_calls = 0
              /\ zip_shapes = NoLayer /\ county_shapes = NoLayer

\* C20 witness: a constructor call rejected for the column "xx" among known ones
C20_Witness ==
    gis_pc = "rejected" /\ "xx" \in columns /\ "ZCTA" \in columns

\* C20 witness: an accepted annotator that joined a batch
C20_WitnessAccepted ==
    gis_pc = "returned" /\ columns = {"ZCTA", "STATEFP", "COUNTYFP", "FIPS5"}
        /\ df # <<>>

\* C21: join on a non-empty batch raises ValueError, and runs no spatial join,
\* whenever ZCTA is requested and no zip layer is loaded, or STATEFP or
\* COUNTYFP is requested and no county layer is loaded, whatever the other
\* layer is.
C21_MissingLayerRaises ==
    (join_calls > 0 /\ df # <<>>) =>
        /\ ("ZCTA" \in columns /\ zip_shapes = NoLayer) =>
              /\ gis_pc = "raised"
              /\ gis_exc = Error("ZIP column is requested, but no zip shape file found")
              /\ sjoin_calls = 0
        /\ (({"STATEFP", "COUNTYFP"} \cap columns) # {}
                /\ county_shapes = NoLayer) =>
              /\ gis_pc = "raised"
              /\ gis_exc.kind \in
                    {"ZIP column is requested, but no zip shape file found",
                     "County columns are requested, but no county shape file found"}
              /\ sjoin_calls = 0

\* C21 witness: a county column requested, the zip layer loaded, no county
\* layer
C21_Witness ==
    /\ gis_pc = "raised" /\ df # <<>>
    /\ columns = {"COUNTYFP"} /\ zip_shapes # NoLayer /\ county_shapes = NoLayer

\* C21 witness: ZCTA requested, the county layer loaded, no zip layer
C21_WitnessZip ==
    /\ gis_pc = "raised" /\ df # <<>>
    /\ columns = {"ZCTA"} /\ zip_shapes = NoLayer /\ county_shapes # NoLayer

\* C22: a download(date) on a downloader that has no target writes no file
\* and returns the list of rows.
C22_NoTargetReturnsRows ==
    (~has_target /\ ops > 0 /\ mode = "single" /\ pc \in {"done", "failed"}
         /\ exc.kind \notin {"fetch", "KeyError", "Empty response"}) =>
        /\ pc = "done"
        /\ returned = "rows"
        /\ target = <<>> /\ ~target_exists

\* C23: download_data makes up to 5 attempts (max_attempts) for a URL and
\* raises only after the 5th failed attempt: a call that gave up on a URL has
\* made max_attempts failed attempts for it.
C23_AqsFetchRetries ==
    (apc = "failed" /\ exhausted_url # 0) => attempt = max_attempts

\* the row lines of a file, in write order
RowsOf(file) == SelectSeq(file, LAMBDA line : line.kind = "row")

\* the sequence number a counter owned by the running download_data call
\* gives the row written at rank `rank` from position `pos` of the first URL
FreshSeq(pos, rank) == IF transform_first THEN pos ELSE rank

\* C24: the Record sequence numbers written by a run do not depend on what
\* ran earlier in the process: the rows a download_data call writes for its
\* first URL are numbered as by a counter that started at 0 with the call,
\* and the i-th row keyed by a downloader instance carries number i.
C24_RecordKeysPerRun ==
    /\ \A i \in DOMAIN RowsOf(written) :
           RowsOf(written)[i].url = 1 =>
               SeqOf(RowsOf(written)[i].Record) =
                   FreshSeq(RowsOf(written)[i].pos, i)
    /\ \A i \in DOMAIN RecordsOf(run_rows) :
           SeqOf(RecordsOf(run_rows)[i]) = i

\* C25: the tasks returned by one call of collect_aqs_download_tasks have
\* pairwise distinct destinations.
C25_DestinationsDistinct ==
    plan_pc = "returned" =>
        \A i, j \in DOMAIN downloads :
            i # j => downloads[i].target # downloads[j].target

C27_StopsEarly ==
    (/\ gis_pc = "returned" /\ df # <<>>
     /\ columns \subseteq ZIP_COLUMNS
     /\ zip_shapes # NoLayer) => sjoin_calls <= 1

\* C28: the derived column FIPS5 is computed only when the raw columns it is
\* built from were resolved: a join never fails for a missing raw column,
\* and a returned row without STATEFP or without COUNTYFP has no FIPS5.
C28_DerivedColumnsNeedRawColumns ==
    /\ gis_exc # Error("KeyError: COUNTYFP")
    /\ gis_pc = "returned" =>
           \A k \in DOMAIN joined :
               (joined[k].STATEFP = absent \/ joined[k].COUNTYFP = absent)
                   => joined[k].FIPS5 = absent

\* the request is for the time from `from` to `to` of one day
Covers(request, from, to) ==
    /\ request.startdate[1] = request.enddate[1]
    /\ request.startdate[2] = from
    /\ request.enddate[2] = to

\* C29 as stated: every request that download issues for a day starts at the
\* start of the day and ends at the end of the day.
C29_SubWindowsAreWholeDay ==
    \A i \in DOMAIN requests : Covers(requests[i], "00", "23:59")

\* C29 as amended: the requests that download issues for a day are all for
\* that day and divide it: an unsplit day has one request from the start to
\* the end of the day; a split day has a first request from the start of
\* the day to 11:59 and a second from 12:00 to the end of the day.
C29_SubWindowsDivideDay ==
    /\ Len(requests) <= Len(t_int)
    /\ \A i \in DOMAIN requests :
           requests[i].startdate[1] = requests[1].startdate[1]
    /\ Len(t_int) = 1 =>
           \A i \in DOMAIN requests : Covers(requests[i], "00", "23:59")
    /\ Len(t_int) = 2 =>
           /\ Len(requests) >= 1 => Covers(requests[1], "00", "11:59")
           /\ Len(requests) >= 2 => Covers(requests[2], "12:00", "23:59")

\* C29 witness: a finished download of a split day that issued both requests
C29_Witness == pc = "done" /\ Len(t_int) = 2 /\ Len(requests) = 2

\* C29 witness: a finished download of an unsplit day
C29_WitnessUnsplit == pc = "done" /\ Len(t_int) = 1 /\ Len(requests) = 1

\* C30: an annotator reads its shape files at most once over its joins, on
\* the first non-empty join, and a layer, once loaded, is not replaced by a
\* later join.
C30_ShapeFilesLoadedOnce ==
    [][ /\ (join_calls >= 1 /\ column_checks = 1) => file_loads' = 0
        /\ zip_shapes # NoLayer => zip_shapes' = zip_shapes
        /\ county_shapes # NoLayer => county_shapes' = county_shapes ]_vars

====
